---- MODULE Spec2Model ----
(***************************************************************************)
(* Sliding window protocol of src/fc/swp.py: SWPPacket (the codec),        *)
(* SWPSender (application thread in send/_send, listener thread in _recv,  *)
(* timer threads in _retransmit) and SWPReceiver (listener thread in       *)
(* _recv, application in recv), joined by two lossy FIFO channels that     *)
(* stand for the two directions of the LLP endpoint pair.                  *)
(***************************************************************************)
EXTENDS Integers, Sequences, FiniteSets, Bags, TLC

\* ------------------------------------------------------------------ bounds
NumChunks == 3        \* byte strings the application passes to send()
MaxChan == 1          \* datagrams one direction of the link holds in flight
MaxSegs == 4          \* segments of a reordered arrival scenario
MaxPayloadLen == 2    \* payload length of the enumerated codec inputs
MaxFragQ == 3         \* whole chunks in the data of a fragmentation scenario
MaxFragR == 5         \* bytes around each multiple of the chunk size
ChunksPerCall == 2    \* chunks of one send() call in the statement-level scenarios

\* ------------------------------------------------------- program constants
DATA == 68            \* SWPType.DATA = ord('D')
ACK == 65             \* SWPType.ACK = ord('A')
HEADER_SIZE == 5      \* struct.calcsize('!BI')
MAX_DATA_SIZE == 1400
SEND_WINDOW_SIZE == 5

VARIABLES
  \* application thread of the sender, inside send() / _send()
  toSend,          \* byte strings the application will pass to send(), in order
  pc,              \* "idle" | "_send" (called, at or before the acquire)
  data,            \* argument of the running send()
  i,               \* loop variable of send()
  \* SWPSender fields
  seq_no, sbuffer, send_semaphore, next_ack,
  timers,          \* bag of sequence numbers with a started threading.Timer
  sndAlive,        \* the listener thread of the sender has not raised
  \* the two directions of the link
  dataChan, ackChan,
  \* SWPReceiver fields and its listener thread
  rbuffer, next_seq, ready_data, rcvAlive,
  \* application of the receiver
  received,        \* values returned by recv() so far
  \* history
  submitted,       \* chunks handed to _send, in order
  sent,            \* datagrams the sender handed to llp.send
  \* environment of an endpoint taken alone
  feed,            \* datagrams the link will hand to the receiver, in order
  \* a packet taken through the codec
  codecIn, codecRaw, codecOut,
  \* the sender's threads taken statement by statement
  th,              \* per application thread: position in _send, chunks left
                   \* of its send() call, sequence numbers it transmitted under
  lst,             \* the listener: position in _recv, loop variable, loop end
  cb,              \* bag of running _retransmit callbacks: argument, position
  err              \* a _retransmit callback has raised

appVars == <<toSend, pc, data, i>>
sndVars == <<seq_no, sbuffer, send_semaphore, next_ack, timers, sndAlive>>
rcvVars == <<rbuffer, next_seq, ready_data, rcvAlive>>
codecVars == <<codecIn, codecRaw, codecOut>>
histVars == <<submitted, sent>>
fineVars == <<th, lst, cb, err>>

vars == <<appVars, sndVars, dataChan, ackChan, rcvVars, received, histVars, feed,
          codecVars, fineVars>>

\* ------------------------------------------------------------------- codec
Min(a, b) == IF a < b THEN a ELSE b

Packet(t, s, d) == [type |-> t, seq_num |-> s, data |-> d]

\* byte k (0 = least significant) of n, as struct.pack('!I') lays it out
ByteOf(n, k) == (n \div (256 ^ k)) % 256

\* struct.pack('!BI', ...) raises struct.error for a sequence number outside
\* 0..2^32-1; every integer of the model is below 2^32
to_bytes_raises(p) == p.seq_num < 0

to_bytes_LittleEndian(p) ==
  <<p.type, ByteOf(p.seq_num, 0), ByteOf(p.seq_num, 1),
    ByteOf(p.seq_num, 2), ByteOf(p.seq_num, 3)>> \o p.data

to_bytes(p) ==
  <<p.type, ByteOf(p.seq_num, 3), ByteOf(p.seq_num, 2),
    ByteOf(p.seq_num, 1), ByteOf(p.seq_num, 0)>> \o p.data

\* the null result of the link's recv(), which is no byte string
None == <<-1>>

\* raw[:5] raises TypeError on None, struct.unpack raises on fewer than 5
\* bytes, SWPType(...) on an unknown tag
from_bytes_raises(raw) ==
  raw = None \/ Len(raw) < HEADER_SIZE \/ raw[1] \notin {DATA, ACK}

from_bytes(raw) ==
  Packet(raw[1],
         ((raw[2] * 256 + raw[3]) * 256 + raw[4]) * 256 + raw[5],
         SubSeq(raw, HEADER_SIZE + 1, Len(raw)))

\* ------------------------------------------------------------- dict helpers
Put(b, k, v) == [x \in (DOMAIN b) \cup {k} |-> IF x = k THEN v ELSE b[x]]
Del(b, k) == [x \in (DOMAIN b) \ {k} |-> b[x]]
EmptyDict == [x \in {} |-> <<>>]

\* ------------------------------------------------------------------- link
\* llp send: best effort, the datagram is queued or silently dropped
LlpSend(chan, raw) ==
  IF Len(chan) < MaxChan THEN {chan, Append(chan, raw)} ELSE {chan}

\* ------------------------------------------------------------------- init
\* chunk k (counted from 1) of the application's input is the byte string <<k>>
AppInput == [k \in 1..NumChunks |-> <<k>>]

SenderInit ==
  /\ pc = "idle" /\ data = <<>> /\ i = 0
  /\ seq_no = 0 /\ sbuffer = EmptyDict
  /\ send_semaphore = SEND_WINDOW_SIZE /\ next_ack = 0
  /\ timers = EmptyBag /\ sndAlive = TRUE
  /\ submitted = <<>> /\ sent = {}

ReceiverInit ==
  /\ rbuffer = EmptyDict /\ next_seq = 0 /\ ready_data = <<>>
  /\ rcvAlive = TRUE /\ received = <<>>

NoPacket == Packet(0, 0, <<>>)

\* application threads that may call send() on the same sender
Producers == {1, 2}

\* no application thread is inside send(), the listener waits in recv(), no
\* timer callback is running
FineIdle ==
  /\ th = [p \in Producers |-> [pc |-> "done", chunks |-> <<>>, used |-> <<>>,
                                 tmp |-> 0]]
  /\ lst = [pc |-> "recv", seqno |-> 0, hi |-> 0]
  /\ cb = EmptyBag
  /\ err = FALSE

CodecIdle == codecIn = NoPacket /\ codecRaw = <<>> /\ codecOut = NoPacket

Init ==
  /\ toSend = AppInput
  /\ SenderInit /\ ReceiverInit /\ FineIdle
  /\ dataChan = <<>> /\ ackChan = <<>>
  /\ feed = <<>> /\ CodecIdle

\* ------------------------------------------------- SWPSender.send / _send
\* data[i:i+MAX_DATA_SIZE]
Slice(d, k) == SubSeq(d, k + 1, Min(k + MAX_DATA_SIZE, Len(d)))

\* range(0, len(data), MAX_DATA_SIZE) has an element at offset k
InRangeWhole(d, k) == k + MAX_DATA_SIZE <= Len(d)

InRange(d, k) == k < Len(d)

\* the application calls send(data): the for loop either calls _send on the
\* first chunk or, on empty data, returns at once
SendCall ==
  /\ pc = "idle" /\ toSend # <<>>
  /\ data' = Head(toSend) /\ toSend' = Tail(toSend)
  /\ i' = 0
  /\ IF InRange(data', 0)
       THEN pc' = "_send" /\ submitted' = Append(submitted, Slice(data', 0))
       ELSE pc' = "idle" /\ UNCHANGED submitted
  /\ UNCHANGED <<sndVars, dataChan, ackChan, rcvVars, received, sent, feed,
                 codecVars, fineVars>>

\* self.send_semaphore.acquire() returns only when the count is above zero
CanAcquireOffByOne(sem) == sem >= 0

CanAcquire(sem) == sem > 0

\* _send without line 92: the sequence number is not advanced
SendChunkNoIncrement ==
  /\ pc = "_send"
  /\ CanAcquire(send_semaphore)
  /\ send_semaphore' = send_semaphore - 1
  /\ LET chunk == Slice(data, i)
         raw == to_bytes(Packet(DATA, seq_no, chunk))
     IN /\ sbuffer' = Put(sbuffer, seq_no, chunk)
        /\ dataChan' \in LlpSend(dataChan, raw)
        /\ sent' = sent \cup {raw}
  /\ timers' = timers (+) SetToBag({seq_no})
  /\ seq_no' = seq_no
  /\ i' = i + MAX_DATA_SIZE
  /\ IF InRange(data, i')
       THEN pc' = "_send" /\ submitted' = Append(submitted, Slice(data, i'))
       ELSE pc' = "idle" /\ UNCHANGED submitted
  /\ UNCHANGED <<toSend, data, next_ack, sndAlive, ackChan, rcvVars, received,
                 feed, codecVars, fineVars>>

\* _send(chunk) from the acquire on: blocks while the semaphore is zero, then
\* stores the chunk, transmits it, starts its timer and increments seq_no;
\* the for loop of send() then calls _send on the next chunk or returns
SendChunk ==
  /\ pc = "_send"
  /\ CanAcquire(send_semaphore)
  /\ send_semaphore' = send_semaphore - 1
  /\ LET chunk == Slice(data, i)
         raw == to_bytes(Packet(DATA, seq_no, chunk))
     IN /\ sbuffer' = Put(sbuffer, seq_no, chunk)
        /\ dataChan' \in LlpSend(dataChan, raw)
        /\ sent' = sent \cup {raw}
  /\ timers' = timers (+) SetToBag({seq_no})
  /\ seq_no' = seq_no + 1
  /\ i' = i + MAX_DATA_SIZE
  /\ IF InRange(data, i')
       THEN pc' = "_send" /\ submitted' = Append(submitted, Slice(data, i'))
       ELSE pc' = "idle" /\ UNCHANGED submitted
  /\ UNCHANGED <<toSend, data, next_ack, sndAlive, ackChan, rcvVars, received,
                 feed, codecVars, fineVars>>

\* ------------------------------------------------- SWPSender._retransmit
\* a started timer fires: if seq_num is still in self.buffer the segment is
\* sent again and a timer is started whose argument is self.seq_no
Retransmit(s) ==
  /\ BagIn(s, timers)
  /\ IF s \in DOMAIN sbuffer
       THEN /\ LET raw == to_bytes(Packet(DATA, s, sbuffer[s])) IN
                 /\ dataChan' \in LlpSend(dataChan, raw)
                 /\ sent' = sent \cup {raw}
            /\ timers' = (timers (-) SetToBag({s})) (+) SetToBag({seq_no})
       ELSE /\ timers' = timers (-) SetToBag({s})
            /\ UNCHANGED <<dataChan, sent>>
  /\ UNCHANGED <<appVars, seq_no, sbuffer, send_semaphore, next_ack, sndAlive,
                 ackChan, rcvVars, received, submitted, feed, codecVars, fineVars>>

\* ------------------------------------------------------ SWPSender._recv
\* the for loop of lines 117-122 over range(lo, hi + 1): each turn deletes
\* seqno from the buffer and releases one credit; a missing key raises
\* KeyError, which leaves the turns before it done
AckLoopOnlyLast(buf, sem, lo, hi) ==
  IF lo > hi
    THEN [buffer |-> buf, sem |-> sem, raised |-> FALSE]
    ELSE IF hi \notin DOMAIN buf
      THEN [buffer |-> buf, sem |-> sem, raised |-> TRUE]
      ELSE [buffer |-> Del(buf, hi), sem |-> sem + 1, raised |-> FALSE]

RECURSIVE AckLoop(_, _, _, _)
AckLoop(buf, sem, lo, hi) ==
  IF lo > hi
    THEN [buffer |-> buf, sem |-> sem, raised |-> FALSE]
    ELSE IF lo \notin DOMAIN buf
      THEN [buffer |-> buf, sem |-> sem, raised |-> TRUE]
      ELSE AckLoop(Del(buf, lo), sem + 1, lo + 1, hi)

\* self.next_ack = packet.seq_num + 1
NextAckAfter(cur, a) == a + 1

\* one turn of the listener loop on the next datagram
SenderRecv ==
  /\ sndAlive /\ ackChan # <<>>
  /\ ackChan' = Tail(ackChan)
  /\ LET raw == Head(ackChan) IN
       IF raw = None
         THEN UNCHANGED <<sndAlive, sbuffer, send_semaphore, next_ack>>
       ELSE IF from_bytes_raises(raw)
         THEN sndAlive' = FALSE /\ UNCHANGED <<sbuffer, send_semaphore, next_ack>>
         ELSE IF from_bytes(raw).type # ACK
           THEN UNCHANGED <<sndAlive, sbuffer, send_semaphore, next_ack>>
           ELSE LET packet == from_bytes(raw)
                    r == AckLoop(sbuffer, send_semaphore, next_ack, packet.seq_num)
                IN /\ sbuffer' = r.buffer
                   /\ send_semaphore' = r.sem
                   /\ IF r.raised
                        THEN sndAlive' = FALSE /\ UNCHANGED next_ack
                        ELSE /\ next_ack' = NextAckAfter(next_ack, packet.seq_num)
                             /\ UNCHANGED sndAlive
  /\ UNCHANGED <<appVars, seq_no, timers, dataChan, rcvVars, received, submitted,
                 sent, feed, codecVars, fineVars>>

\* ---------------------------------------------------- SWPReceiver._recv
\* the while loop of lines 163-172
MinKey(S) == CHOOSE m \in S : \A x \in S : m <= x

\* delivers whatever is buffered, lowest key first, gaps or not
RECURSIVE DrainGap(_, _, _)
DrainGap(buf, ns, q) ==
  IF DOMAIN buf = {}
    THEN [buffer |-> buf, next_seq |-> ns, ready |-> q]
    ELSE LET m == MinKey(DOMAIN buf) IN
           DrainGap(Del(buf, m), IF m >= ns THEN m + 1 ELSE ns, Append(q, buf[m]))

\* delivers every buffered key up to next_seq, delivered before or not
RECURSIVE DrainStale(_, _, _)
DrainStale(buf, ns, q) ==
  IF \A k \in DOMAIN buf : k > ns
    THEN [buffer |-> buf, next_seq |-> ns, ready |-> q]
    ELSE LET m == MinKey({k \in DOMAIN buf : k <= ns}) IN
           DrainStale(Del(buf, m), IF m = ns THEN ns + 1 ELSE ns, Append(q, buf[m]))

RECURSIVE Drain(_, _, _)
Drain(buf, ns, q) ==
  IF ns \notin DOMAIN buf
    THEN [buffer |-> buf, next_seq |-> ns, ready |-> q]
    ELSE Drain(Del(buf, ns), ns + 1, Append(q, buf[ns]))

\* one turn of the listener loop on the next datagram
ReceiverRecv ==
  /\ rcvAlive /\ dataChan # <<>>
  /\ dataChan' = Tail(dataChan)
  /\ LET raw == Head(dataChan) IN
       IF from_bytes_raises(raw)
         THEN rcvAlive' = FALSE /\ UNCHANGED <<rbuffer, next_seq, ready_data, ackChan>>
         ELSE IF from_bytes(raw).type # DATA
           THEN UNCHANGED <<rcvVars, ackChan>>
           ELSE LET packet == from_bytes(raw)
                    d == Drain(Put(rbuffer, packet.seq_num, packet.data),
                               next_seq, ready_data)
                    ack == Packet(ACK, d.next_seq - 1, <<>>)
                IN /\ rbuffer' = d.buffer
                   /\ next_seq' = d.next_seq
                   /\ ready_data' = d.ready
                   /\ IF to_bytes_raises(ack)
                        THEN rcvAlive' = FALSE /\ UNCHANGED ackChan
                        ELSE /\ ackChan' \in LlpSend(ackChan, to_bytes(ack))
                             /\ UNCHANGED rcvAlive
  /\ UNCHANGED <<appVars, sndVars, received, histVars, feed, codecVars, fineVars>>

\* SWPReceiver.recv(): blocks while the queue is empty
AppRecv ==
  /\ ready_data # <<>>
  /\ received' = Append(received, Head(ready_data))
  /\ ready_data' = Tail(ready_data)
  /\ UNCHANGED <<appVars, sndVars, dataChan, ackChan, rbuffer, next_seq, rcvAlive,
                 histVars, feed, codecVars, fineVars>>

\* ------------------------------------------------------------- environment
\* the link hands the sender an ACK for a sequence number it has transmitted,
\* in any order and any number of times (a link that reorders and duplicates)
InjectAck ==
  /\ Len(ackChan) < MaxChan
  /\ \E a \in 0..(seq_no - 1) :
       ackChan' = Append(ackChan, to_bytes(Packet(ACK, a, <<>>)))
  /\ UNCHANGED <<appVars, sndVars, dataChan, rcvVars, received, histVars, feed,
                 codecVars, fineVars>>

\* the link hands the receiver the next datagram of the scenario
LinkFeed ==
  /\ feed # <<>> /\ Len(dataChan) < MaxChan
  /\ dataChan' = Append(dataChan, Head(feed))
  /\ feed' = Tail(feed)
  /\ UNCHANGED <<appVars, sndVars, ackChan, rcvVars, received, histVars, codecVars, fineVars>>

\* what a listener may be handed besides a well-formed segment: the null
\* result, a datagram shorter than the header, one with an unknown kind tag
Junk == {None, <<ACK, 0, 0>>, <<88, 0, 0, 0, 0>>}

\* the link hands the sender's listener one of these
InjectJunk ==
  /\ Len(ackChan) < MaxChan
  /\ \E j \in Junk : ackChan' = Append(ackChan, j)
  /\ UNCHANGED <<appVars, sndVars, dataChan, rcvVars, received, histVars, feed,
                 codecVars, fineVars>>

\* ------------------------------------------------------------------- codec
\* p.to_bytes()
Encode ==
  /\ codecIn # NoPacket /\ codecRaw = <<>>
  /\ ~to_bytes_raises(codecIn)
  /\ codecRaw' = to_bytes(codecIn)
  /\ UNCHANGED <<appVars, sndVars, dataChan, ackChan, rcvVars, received, histVars,
                 feed, codecIn, codecOut, fineVars>>

\* SWPPacket.from_bytes(raw)
Decode ==
  /\ codecRaw # <<>> /\ codecOut = NoPacket
  /\ ~from_bytes_raises(codecRaw)
  /\ codecOut' = from_bytes(codecRaw)
  /\ UNCHANGED <<appVars, sndVars, dataChan, ackChan, rcvVars, received, histVars,
                 feed, codecIn, codecRaw, fineVars>>

\* ------------------------------------------------------------ specification
Seqs == 0..NumChunks

\* both endpoints, the link, the timers and the receiving application
Next ==
  \/ SendCall
  \/ SendChunk
  \/ \E s \in Seqs : Retransmit(s)
  \/ SenderRecv
  \/ ReceiverRecv
  \/ AppRecv

Spec == Init /\ [][Next]_vars

\* Scheduling: every thread that can take a step eventually takes it (the
\* application inside _send, each timer callback, both listeners, the receiving
\* application), and the link delivers a datagram that is sent again and again:
\* a retransmission, or an ACK, is queued infinitely often if it is attempted
\* infinitely often. The application is not obliged to call send() again.
Fairness ==
  /\ WF_vars(SendChunk)
  /\ \A s \in Seqs : WF_vars(Retransmit(s))
  /\ WF_vars(SenderRecv)
  /\ WF_vars(ReceiverRecv)
  /\ WF_vars(AppRecv)
  /\ \A s \in Seqs : SF_vars(Retransmit(s) /\ dataChan' # dataChan)
  /\ SF_vars(ReceiverRecv /\ ackChan' # ackChan)

FairSpec == Init /\ [][Next]_vars /\ Fairness

\* payloads the receiver has put on its delivery queue, in order
delivered == received \o ready_data

\* sequence numbers the sender has transmitted
SentSeqs == {from_bytes(r).seq_num : r \in sent}

\* the sender's listener is about to handle an ACK / the receiver's a DATA
AckAtHead ==
  /\ sndAlive /\ ackChan # <<>>
  /\ ~from_bytes_raises(Head(ackChan))
  /\ from_bytes(Head(ackChan)).type = ACK
AckNum == from_bytes(Head(ackChan)).seq_num

DataAtHead ==
  /\ rcvAlive /\ dataChan # <<>>
  /\ ~from_bytes_raises(Head(dataChan))
  /\ from_bytes(Head(dataChan)).type = DATA
DataSeq == from_bytes(Head(dataChan)).seq_num

\* -------------------------------------------- the window, before any timeout
\* one more chunk than the window holds; no timer has expired yet
WindowInput == [k \in 1..(SEND_WINDOW_SIZE + 1) |-> <<k>>]

InitWindow ==
  /\ toSend = WindowInput
  /\ SenderInit /\ ReceiverInit /\ FineIdle
  /\ dataChan = <<>> /\ ackChan = <<>>
  /\ feed = <<>> /\ CodecIdle

NextWindow ==
  \/ SendCall
  \/ SendChunk
  \/ SenderRecv
  \/ ReceiverRecv

SpecWindow == InitWindow /\ [][NextWindow]_vars

\* ------------------------------------- after the first transmissions are lost
\* the state after the application has submitted its first k chunks, one per
\* send() call, and the link has dropped the first transmission of each: every
\* copy the receiver sees from here on was retransmitted by a timer
InitRetx ==
  \E k \in 1..NumChunks :
    /\ toSend = <<>>
    /\ pc = "idle" /\ data = AppInput[k] /\ i = MAX_DATA_SIZE
    /\ seq_no = k
    /\ sbuffer = [s \in 0..(k - 1) |-> AppInput[s + 1]]
    /\ send_semaphore = SEND_WINDOW_SIZE - k /\ next_ack = 0
    /\ timers = SetToBag(0..(k - 1)) /\ sndAlive = TRUE
    /\ submitted = SubSeq(AppInput, 1, k)
    /\ sent = {to_bytes(Packet(DATA, s, AppInput[s + 1])) : s \in 0..(k - 1)}
    /\ ReceiverInit /\ FineIdle
    /\ dataChan = <<>> /\ ackChan = <<>>
    /\ feed = <<>> /\ CodecIdle

NextRetx ==
  \/ \E s \in Seqs : Retransmit(s)
  \/ SenderRecv
  \/ ReceiverRecv
  \/ AppRecv

FairRetx == InitRetx /\ [][NextRetx]_vars /\ Fairness

\* ------------------------------------------- the sender's listener taken alone
\* the sender with a window of segments in flight and a link that hands it ACKs
\* in any order
NextAck ==
  \/ SendCall
  \/ SendChunk
  \/ InjectAck
  \/ SenderRecv

SpecAck == InitWindow /\ [][NextAck]_vars

\* ----------------------------------------- the receiver's listener taken alone
\* the DATA segment the sender builds for sequence number s of AppInput's kind
SegData(s) == to_bytes(Packet(DATA, s, <<s + 1>>))

Perms(n) == {f \in [1..n -> 0..(n - 1)] : \A a, b \in 1..n : a # b => f[a] # f[b]}

\* the segments 0..n-1, each once, reach the receiver in some order
InitPerm ==
  /\ \E n \in 1..MaxSegs : \E f \in Perms(n) : feed = [j \in 1..n |-> SegData(f[j])]
  /\ toSend = <<>>
  /\ SenderInit /\ ReceiverInit /\ FineIdle
  /\ dataChan = <<>> /\ ackChan = <<>>
  /\ CodecIdle

NextPerm ==
  \/ LinkFeed
  \/ ReceiverRecv
  \/ AppRecv

SpecPerm == InitPerm /\ [][NextPerm]_vars

\* every segment of the scenario has been taken by the listener and every
\* queued payload by recv()
PermDone == feed = <<>> /\ dataChan = <<>> /\ ready_data = <<>>

\* ---------------------------------------------------------- the codec alone
CodecSeqs == {0, 1, 255, 256, 65535, 65536, 16777215, 16777216, 2147483647}
CodecBytes == {0, 65, 255}
CodecPayloads ==
  UNION {[1..n -> CodecBytes] : n \in 0..MaxPayloadLen}
    \cup {[k \in 1..MAX_DATA_SIZE |-> k % 256]}

InitCodec ==
  /\ codecIn \in {Packet(t, n, d) : t \in {DATA, ACK}, n \in CodecSeqs,
                                    d \in CodecPayloads}
  /\ codecRaw = <<>> /\ codecOut = NoPacket
  /\ toSend = <<>>
  /\ SenderInit /\ ReceiverInit /\ FineIdle
  /\ dataChan = <<>> /\ ackChan = <<>> /\ feed = <<>>

NextCodec ==
  \/ Encode
  \/ Decode

SpecCodec == InitCodec /\ [][NextCodec]_vars

\* ------------------------------------------------------- send() taken alone
\* byte strings whose lengths lie around the multiples of the chunk size
FragLens ==
  {n \in {q * MAX_DATA_SIZE + r : q \in 0..MaxFragQ, r \in (0 - MaxFragR)..MaxFragR} :
     n >= 0}
FragBytes(n) == [k \in 1..n |-> k % 251]

InitFrag ==
  /\ \E n \in FragLens : toSend = <<FragBytes(n)>>
  /\ SenderInit /\ ReceiverInit /\ FineIdle
  /\ dataChan = <<>> /\ ackChan = <<>>
  /\ feed = <<>> /\ CodecIdle

NextFrag ==
  \/ SendCall
  \/ SendChunk

SpecFrag == InitFrag /\ [][NextFrag]_vars

\* ------------------------------------------ the listeners on malformed input
\* the receiver is handed up to MaxSegs datagrams, each the segment 0 or junk;
\* the sender, with nothing in flight, is handed junk and the receiver's ACKs
InitRobust ==
  /\ \E n \in 1..MaxSegs : feed \in [1..n -> Junk \cup {SegData(0)}]
  /\ toSend = <<>>
  /\ SenderInit /\ ReceiverInit /\ FineIdle
  /\ dataChan = <<>> /\ ackChan = <<>>
  /\ CodecIdle

NextRobust ==
  \/ LinkFeed
  \/ ReceiverRecv
  \/ AppRecv
  \/ InjectJunk
  \/ SenderRecv

SpecRobust == InitRobust /\ [][NextRobust]_vars

\* ---------------------------------- the sender's threads, statement by statement
\* No statement of SWPSender runs under a lock, so the threads interleave
\* between any two statements.
otherSnd == <<appVars, next_ack, sndAlive, ackChan, rcvVars, received, submitted,
              feed, codecVars>>

\* line 76: self.send_semaphore.acquire()
P_Acquire(p) ==
  /\ th[p].pc = "acquire"
  /\ CanAcquire(send_semaphore)
  /\ send_semaphore' = send_semaphore - 1
  /\ th' = [th EXCEPT ![p].pc = "store"]
  /\ UNCHANGED <<otherSnd, seq_no, sbuffer, timers, dataChan, sent, lst, cb, err>>

\* line 79: self.buffer[self.seq_no] = data
P_Store(p) ==
  /\ th[p].pc = "store"
  /\ sbuffer' = Put(sbuffer, seq_no, Head(th[p].chunks))
  /\ th' = [th EXCEPT ![p].pc = "packet"]
  /\ UNCHANGED <<otherSnd, seq_no, send_semaphore, timers, dataChan, sent, lst,
                 cb, err>>

\* lines 82-85: the packet is built from self.seq_no and handed to the link
P_Transmit(p) ==
  /\ th[p].pc = "packet"
  /\ LET raw == to_bytes(Packet(DATA, seq_no, Head(th[p].chunks))) IN
       /\ dataChan' \in LlpSend(dataChan, raw)
       /\ sent' = sent \cup {raw}
  /\ th' = [th EXCEPT ![p].pc = "timer", ![p].used = Append(@, seq_no)]
  /\ UNCHANGED <<otherSnd, seq_no, sbuffer, send_semaphore, timers, lst, cb, err>>

\* lines 88-89: a timer is started with args=[self.seq_no]
P_Timer(p) ==
  /\ th[p].pc = "timer"
  /\ timers' = timers (+) SetToBag({seq_no})
  /\ th' = [th EXCEPT ![p].pc = "load"]
  /\ UNCHANGED <<otherSnd, seq_no, sbuffer, send_semaphore, dataChan, sent, lst,
                 cb, err>>

\* line 92, self.seq_no += 1: the read
P_Load(p) ==
  /\ th[p].pc = "load"
  /\ th' = [th EXCEPT ![p].pc = "incr", ![p].tmp = seq_no]
  /\ UNCHANGED <<otherSnd, seq_no, sbuffer, send_semaphore, timers, dataChan,
                 sent, lst, cb, err>>

\* line 92: the write; _send returns and the for loop of send() goes on
P_Incr(p) ==
  /\ th[p].pc = "incr"
  /\ seq_no' = th[p].tmp + 1
  /\ th' = [th EXCEPT ![p].chunks = Tail(@),
                      ![p].pc = IF Tail(th[p].chunks) = <<>> THEN "done"
                                                             ELSE "acquire"]
  /\ UNCHANGED <<otherSnd, sbuffer, send_semaphore, timers, dataChan, sent, lst,
                 cb, err>>

otherLst == <<appVars, seq_no, timers, dataChan, rcvVars, received, histVars,
              feed, codecVars, th, cb, err>>

\* lines 108-117: the listener takes a datagram; an ACK starts the for loop
\* over range(self.next_ack, packet.seq_num + 1)
L_Recv ==
  /\ sndAlive /\ lst.pc = "recv" /\ ackChan # <<>>
  /\ ackChan' = Tail(ackChan)
  /\ LET raw == Head(ackChan) IN
       IF raw = None
         THEN UNCHANGED <<sndAlive, lst>>
       ELSE IF from_bytes_raises(raw)
         THEN sndAlive' = FALSE /\ UNCHANGED lst
         ELSE IF from_bytes(raw).type # ACK
           THEN UNCHANGED <<sndAlive, lst>>
           ELSE /\ lst' = [pc |-> "del", seqno |-> next_ack,
                           hi |-> from_bytes(raw).seq_num]
                /\ UNCHANGED sndAlive
  /\ UNCHANGED <<otherLst, sbuffer, send_semaphore, next_ack>>

\* line 119, del self.buffer[seqno], or the end of the loop and line 125
L_Del ==
  /\ sndAlive /\ lst.pc = "del"
  /\ IF lst.seqno > lst.hi
       THEN /\ next_ack' = NextAckAfter(next_ack, lst.hi)
            /\ lst' = [lst EXCEPT !.pc = "recv"]
            /\ UNCHANGED <<sbuffer, sndAlive>>
       ELSE IF lst.seqno \notin DOMAIN sbuffer
         THEN sndAlive' = FALSE /\ UNCHANGED <<sbuffer, next_ack, lst>>
         ELSE /\ sbuffer' = Del(sbuffer, lst.seqno)
              /\ lst' = [lst EXCEPT !.pc = "release"]
              /\ UNCHANGED <<next_ack, sndAlive>>
  /\ UNCHANGED <<otherLst, send_semaphore, ackChan>>

\* line 122: self.send_semaphore.release()
L_Release ==
  /\ sndAlive /\ lst.pc = "release"
  /\ send_semaphore' = send_semaphore + 1
  /\ lst' = [lst EXCEPT !.pc = "del", !.seqno = @ + 1]
  /\ UNCHANGED <<otherLst, sbuffer, next_ack, sndAlive, ackChan>>

otherCb == <<appVars, seq_no, sbuffer, send_semaphore, next_ack, sndAlive,
             ackChan, rcvVars, received, submitted, feed, codecVars, th, lst>>

Callback(s, at, d) == [seq |-> s, pc |-> at, data |-> d]

\* line 98: a started timer fires and tests seq_num in self.buffer
T_Fire(s) ==
  /\ BagIn(s, timers)
  /\ timers' = timers (-) SetToBag({s})
  /\ cb' = IF s \in DOMAIN sbuffer
             THEN cb (+) SetToBag({Callback(s, "read", <<>>)})
             ELSE cb
  /\ UNCHANGED <<otherCb, dataChan, sent, err>>

\* line 99: the packet is built from self.buffer[seq_num]; KeyError if the
\* entry has gone since the test
T_Read(c) ==
  /\ BagIn(c, cb) /\ c.pc = "read"
  /\ IF c.seq \in DOMAIN sbuffer
       THEN /\ cb' = (cb (-) SetToBag({c}))
                       (+) SetToBag({Callback(c.seq, "send", sbuffer[c.seq])})
            /\ UNCHANGED err
       ELSE /\ cb' = cb (-) SetToBag({c})
            /\ err' = TRUE
  /\ UNCHANGED <<otherCb, timers, dataChan, sent>>

\* line 100: the packet is handed to the link
T_Send(c) ==
  /\ BagIn(c, cb) /\ c.pc = "send"
  /\ LET raw == to_bytes(Packet(DATA, c.seq, c.data)) IN
       /\ dataChan' \in LlpSend(dataChan, raw)
       /\ sent' = sent \cup {raw}
  /\ cb' = (cb (-) SetToBag({c})) (+) SetToBag({Callback(c.seq, "arm", c.data)})
  /\ UNCHANGED <<otherCb, timers, err>>

\* lines 101-102: a timer is started with args=[self.seq_no]
T_Arm(c) ==
  /\ BagIn(c, cb) /\ c.pc = "arm"
  /\ timers' = timers (+) SetToBag({seq_no})
  /\ cb' = cb (-) SetToBag({c})
  /\ UNCHANGED <<otherCb, dataChan, sent, err>>

\* the chunks of the send() call of application thread p
FineChunks(p) == [k \in 1..ChunksPerCall |-> <<10 * p + k>>]

\* the callbacks that can be running
Callbacks ==
  {Callback(s, at, d) : s \in 0..(2 * ChunksPerCall), at \in {"read", "send", "arm"},
                        d \in {<<>>} \cup {<<10 * p + k>> : p \in Producers,
                                                          k \in 1..ChunksPerCall}}

\* one application thread inside send(), the listener handed ACKs for
\* transmitted sequence numbers, the timers
InitFine ==
  /\ toSend = <<>>
  /\ SenderInit /\ ReceiverInit
  /\ dataChan = <<>> /\ ackChan = <<>>
  /\ feed = <<>> /\ CodecIdle
  /\ th = [p \in Producers |->
             IF p = 1 THEN [pc |-> "acquire", chunks |-> FineChunks(p),
                            used |-> <<>>, tmp |-> 0]
                      ELSE [pc |-> "done", chunks |-> <<>>, used |-> <<>>,
                            tmp |-> 0]]
  /\ lst = [pc |-> "recv", seqno |-> 0, hi |-> 0]
  /\ cb = EmptyBag /\ err = FALSE

NextFine ==
  \/ \E p \in Producers :
       \/ P_Acquire(p) \/ P_Store(p) \/ P_Transmit(p)
       \/ P_Timer(p) \/ P_Load(p) \/ P_Incr(p)
  \/ InjectAck
  \/ L_Recv \/ L_Del \/ L_Release
  \/ \E s \in 0..(2 * ChunksPerCall) : T_Fire(s)
  \/ \E c \in Callbacks : T_Read(c) \/ T_Send(c) \/ T_Arm(c)

SpecFine == InitFine /\ [][NextFine]_vars

\* two application threads inside send() at once, nothing else running
InitProducers ==
  /\ toSend = <<>>
  /\ SenderInit /\ ReceiverInit
  /\ dataChan = <<>> /\ ackChan = <<>>
  /\ feed = <<>> /\ CodecIdle
  /\ th = [p \in Producers |-> [pc |-> "acquire", chunks |-> FineChunks(p),
                               used |-> <<>>, tmp |-> 0]]
  /\ lst = [pc |-> "recv", seqno |-> 0, hi |-> 0]
  /\ cb = EmptyBag /\ err = FALSE

NextProducers ==
  \E p \in Producers :
    \/ P_Acquire(p) \/ P_Store(p) \/ P_Transmit(p)
    \/ P_Timer(p) \/ P_Load(p) \/ P_Incr(p)

SpecProducers == InitProducers /\ [][NextProducers]_vars

RECURSIVE Flatten(_)
Flatten(q) == IF q = <<>> THEN <<>> ELSE Head(q) \o Flatten(Tail(q))

\* number of times x occurs in the sequence q
Count(q, x) == Cardinality({j \in 1..Len(q) : q[j] = x})

\* ------------------------------------------------------------------ claims

\* C1: the payloads put on the delivery queue (what successive recv() calls
\* return, then what is still queued) are a prefix of the chunks submitted, in
\* submission order, with no gap and no duplicate.
C1_DeliveredIsPrefix ==
  /\ Len(delivered) <= Len(submitted)
  /\ \A k \in 1..Len(delivered) : delivered[k] = submitted[k]

\* a prefix has been delivered while a later segment, arrived out of order,
\* waits in the buffer
C1_Witness ==
  /\ Len(received) >= 1
  /\ \E s \in DOMAIN rbuffer : s > next_seq

\* C2: under fair scheduling and a link that delivers what is sent again and
\* again, every chunk submitted is eventually put on the delivery queue.
C2_EventuallyDelivered ==
  \A k \in 1..NumChunks : (Len(submitted) >= k) ~> (Len(delivered) >= k)

\* C3: at most SEND_WINDOW_SIZE sequence numbers are sent and unacknowledged;
\* with one chunk more than the window submitted and no ACK handled (next_ack
\* is still 0, which every handled ACK raises), exactly
\* the first SEND_WINDOW_SIZE sequence numbers have been transmitted and the
\* last _send call is blocked at the acquire.
C3_WindowBackpressure ==
  /\ Cardinality({s \in SentSeqs : s \in DOMAIN sbuffer}) <= SEND_WINDOW_SIZE
  /\ Cardinality({s \in SentSeqs : s >= next_ack}) <= SEND_WINDOW_SIZE
  /\ (Len(submitted) = SEND_WINDOW_SIZE + 1 /\ next_ack = 0)
       => /\ SentSeqs = 0..(SEND_WINDOW_SIZE - 1)
          /\ pc = "_send"
          /\ ~ENABLED SendChunk

C3_Witness ==
  /\ Len(submitted) = SEND_WINDOW_SIZE + 1 /\ next_ack = 0
  /\ pc = "_send" /\ send_semaphore = 0
  /\ DOMAIN sbuffer = 0..(SEND_WINDOW_SIZE - 1)
  /\ Cardinality(SentSeqs) = SEND_WINDOW_SIZE

\* C4: when every sequence number from next_ack to A is in the buffer and the
\* listener handles one ACK carrying A, exactly those entries are removed, one
\* credit is released per removed entry, and next_ack becomes A + 1.
C4_CumulativeAck ==
  [][(SenderRecv /\ AckAtHead /\ next_ack <= AckNum
        /\ (next_ack..AckNum) \subseteq DOMAIN sbuffer)
       => /\ DOMAIN sbuffer' = (DOMAIN sbuffer) \ (next_ack..AckNum)
          /\ \A s \in DOMAIN sbuffer' : sbuffer'[s] = sbuffer[s]
          /\ send_semaphore' = send_semaphore + (AckNum - next_ack + 1)
          /\ next_ack' = AckNum + 1
          /\ sndAlive']_vars

\* segments 0, 1, 2 are in flight with two credits left, no ACK has been
\* handled, and the listener's next datagram is the single ACK 2
C4_Witness ==
  /\ AckAtHead /\ AckNum = 2
  /\ next_ack = 0 /\ DOMAIN sbuffer = {0, 1, 2}
  /\ send_semaphore = SEND_WINDOW_SIZE - 3
  /\ ENABLED SenderRecv

\* C5: handling an ACK carrying A with A + 1 <= next_ack leaves the buffer, the
\* credit count and next_ack unchanged.
C5_StaleAckNoOp ==
  [][(SenderRecv /\ AckAtHead /\ AckNum + 1 <= next_ack)
       => UNCHANGED <<sbuffer, send_semaphore, next_ack>>]_vars

\* C6: whatever the order in which the segments 0..n-1 reach the receiver, its
\* listener handles every one of them, and once all are handled and taken by
\* recv(), the values returned are the n payloads in sequence-number order.
C6_InOrderUnderReordering ==
  /\ rcvAlive
  /\ PermDone => /\ rbuffer = EmptyDict
                 /\ \A k \in 1..Len(received) : received[k] = <<k>>

\* C7: handling a DATA segment whose sequence number is buffered or already
\* delivered appends nothing and leaves next_seq alone; every sequence number
\* is appended at most once (each append advances next_seq by one, and no
\* payload occurs twice on the queue).
C7_DuplicateSuppression ==
  [][/\ (ReceiverRecv /\ DataAtHead
           /\ (DataSeq \in DOMAIN rbuffer \/ DataSeq < next_seq))
          => (delivered' = delivered /\ next_seq' = next_seq)
     /\ Len(delivered') = next_seq'
     /\ \A j, k \in 1..Len(delivered') : j # k => delivered'[j] # delivered'[k]]_vars

\* a copy of an already delivered segment has been handled
C7_Witness ==
  /\ \E s \in DOMAIN rbuffer : s < next_seq
  /\ Len(delivered) = next_seq

\* C8: once the receiver's listener is handed the retransmitted copy of a
\* segment whose first transmission was dropped, that payload is put on the
\* delivery queue exactly once; and when an ACK covering a sequence number
\* reaches the sender, the number leaves the buffer and its credit is released.
C8_RetransmittedDeliveredOnce ==
  /\ \A s \in 0..(NumChunks - 1) :
       (DataAtHead /\ DataSeq = s) ~> (Count(delivered, AppInput[s + 1]) = 1)
  /\ [][(SenderRecv /\ AckAtHead)
          => /\ \A s \in 0..AckNum : s \notin DOMAIN sbuffer'
             /\ send_semaphore' = send_semaphore
                   + Cardinality({s \in DOMAIN sbuffer : s <= AckNum})]_vars

\* C9: to_bytes lays a packet out as the kind tag, the sequence number in four
\* bytes, most significant first, then the payload; from_bytes of that gives
\* back the kind, the sequence number and the payload.
C9_CodecRoundTrip ==
  /\ codecRaw # <<>> =>
       /\ Len(codecRaw) = 1 + 4 + Len(codecIn.data)
       /\ codecRaw[1] = codecIn.type
       /\ \A k \in 2..5 : codecRaw[k] \in 0..255
       /\ ((codecRaw[2] * 256 + codecRaw[3]) * 256 + codecRaw[4]) * 256 + codecRaw[5]
            = codecIn.seq_num
       /\ \A j \in 1..Len(codecIn.data) : codecRaw[5 + j] = codecIn.data[j]
  /\ codecOut # NoPacket =>
       /\ codecOut.type = codecIn.type
       /\ codecOut.seq_num = codecIn.seq_num
       /\ codecOut.data = codecIn.data

\* a DATA packet with a full payload and a large sequence number has gone
\* through both directions
C9_Witness ==
  /\ codecOut # NoPacket
  /\ codecIn.type = DATA /\ codecIn.seq_num = 16777216
  /\ Len(codecIn.data) = MAX_DATA_SIZE

\* C10: the chunks send() hands to _send are non-empty, at most MAX_DATA_SIZE
\* bytes long, and concatenate in order to data (none for empty data); each
\* is transmitted as its own DATA segment.
C10_Fragmentation ==
  /\ \A k \in 1..Len(submitted) :
       Len(submitted[k]) >= 1 /\ Len(submitted[k]) <= MAX_DATA_SIZE
  /\ Len(Flatten(submitted)) <= Len(data)
  /\ Flatten(submitted) = SubSeq(data, 1, Len(Flatten(submitted)))
  /\ (pc = "idle" /\ toSend = <<>>) =>
       /\ Flatten(submitted) = data
       /\ seq_no = Len(submitted)
  /\ sent = {to_bytes(Packet(DATA, k - 1, submitted[k])) : k \in 1..seq_no}
  /\ Cardinality(sent) = seq_no

\* two full chunks and a last chunk of one byte have been sent
C10_Witness ==
  /\ pc = "idle" /\ toSend = <<>>
  /\ Len(data) = 2 * MAX_DATA_SIZE + 1
  /\ Len(submitted) = 3 /\ Len(submitted[3]) = 1
  /\ seq_no = 3

\* C11: when the timer of a sequence number that is still in the buffer fires,
\* the segment (seq, original payload) is handed to the link again and a timer
\* for that same sequence number is started, so that the chain goes on until
\* an ACK removes the entry.
C11_RetransmissionChain ==
  [][\A s \in Seqs :
       (Retransmit(s) /\ s \in DOMAIN sbuffer)
         => /\ dataChan' \in LlpSend(dataChan,
                                     to_bytes(Packet(DATA, s, submitted[s + 1])))
            /\ BagIn(s, timers')]_vars

\* C12: in every state of the sender, whatever statement its application
\* thread, its listener and its timer callbacks have reached, the entries of
\* the buffer and the free credits add up to the window capacity.
C12_WindowInvariant ==
  Cardinality(DOMAIN sbuffer) + send_semaphore = SEND_WINDOW_SIZE

\* C13: handling an ACK carrying A removes exactly the sequence numbers of
\* next_ack..A that are in the buffer, releases one credit for each of them
\* and none for an absent one, and the listener goes on to the next datagram.
C13_AckChecksMembership ==
  [][(SenderRecv /\ AckAtHead)
       => LET present == {s \in next_ack..AckNum : s \in DOMAIN sbuffer} IN
            /\ DOMAIN sbuffer' = (DOMAIN sbuffer) \ present
            /\ send_semaphore' = send_semaphore + Cardinality(present)
            /\ sndAlive']_vars

\* C14: between two turns of the receiver's listener no key of its buffer is
\* less than or equal to next_seq.
C14_PendingAboveNextSeq ==
  \A k \in DOMAIN rbuffer : k > next_seq

\* a sequence number that was transmitted and is no longer in the buffer: an
\* ACK has removed it
Acked(s) ==
  /\ \E p \in Producers : \E j \in 1..Len(th[p].used) : th[p].used[j] = s
  /\ s \notin DOMAIN sbuffer

\* C15: a sequence number an ACK has removed from the buffer never comes back
\* into it, and no statement of a timer callback for it that runs afterwards
\* hands anything to the link, starts a timer or raises.
C15_AckedIsTerminal ==
  [][\A s \in 0..(2 * ChunksPerCall) :
       Acked(s) =>
         /\ s \notin DOMAIN sbuffer'
         /\ \A c \in Callbacks : c.seq = s => (~T_Send(c) /\ ~T_Arm(c))
         /\ (T_Fire(s) \/ \E c \in Callbacks : c.seq = s /\ T_Read(c))
              => (err' = err /\ cb' \sqsubseteq cb /\ timers' \sqsubseteq timers
                  /\ dataChan' = dataChan)]_vars

\* C16: with one application thread, the n-th chunk (counted from 0) handed to
\* _send is stored and transmitted under sequence number n: seq_no counts the
\* chunks that have gone through _send, the datagrams handed to the link are
\* exactly (n, n-th chunk) for n below seq_no, and no sequence number is used
\* for two different chunks.
C16_SeqAssignment ==
  /\ seq_no = Len(submitted) - (IF pc = "_send" THEN 1 ELSE 0)
  /\ sent = {to_bytes(Packet(DATA, n, submitted[n + 1])) : n \in 0..(seq_no - 1)}
  /\ \A r1, r2 \in sent :
       from_bytes(r1).seq_num = from_bytes(r2).seq_num => r1 = r2
  /\ \A n \in DOMAIN sbuffer : n < seq_no /\ sbuffer[n] = submitted[n + 1]

\* three chunks have gone through _send and a fourth sequence number has not
\* been used
C16_Witness ==
  /\ seq_no = 3 /\ Len(submitted) >= 3
  /\ SentSeqs = {0, 1, 2}
  /\ to_bytes(Packet(DATA, 2, submitted[3])) \in sent

\* C17: with two application threads inside send() at once, every chunk is
\* transmitted under a sequence number no other chunk is transmitted under,
\* the chunks of one call get increasing sequence numbers in their order, and
\* no chunk is stored over the buffer entry of another chunk.
C17_ConcurrentProducers ==
  [][/\ \A p, q \in Producers :
          \A j \in 1..Len(th'[p].used) : \A k \in 1..Len(th'[q].used) :
            (p # q \/ j # k) => th'[p].used[j] # th'[q].used[k]
     /\ \A p \in Producers :
          \A j, k \in 1..Len(th'[p].used) :
            j < k => th'[p].used[j] < th'[p].used[k]
     /\ \A p \in Producers : P_Store(p) => seq_no \notin DOMAIN sbuffer]_vars

\* C18: each DATA segment the receiver's listener handles makes it hand the
\* link exactly one ACK, with empty payload and sequence number next_seq - 1
\* taken after the drain loop; any other segment changes nothing and sends
\* nothing.
C18_OneAckPerData ==
  [][/\ (ReceiverRecv /\ DataAtHead)
          => /\ rcvAlive'
             /\ ackChan' \in LlpSend(ackChan,
                                     to_bytes(Packet(ACK, next_seq' - 1, <<>>)))
     /\ (ReceiverRecv /\ ~from_bytes_raises(Head(dataChan))
           /\ from_bytes(Head(dataChan)).type # DATA)
          => UNCHANGED <<rcvVars, ackChan>>]_vars

\* C19: a listener that is handed the null result or a datagram that cannot
\* be decoded changes no state of its endpoint and keeps running, so that it
\* handles the datagrams that follow.
C19_ListenerRobust ==
  [][/\ (ReceiverRecv /\ Head(dataChan) \in Junk)
          => (rcvAlive' /\ UNCHANGED <<rbuffer, next_seq, ready_data, ackChan>>)
     /\ (SenderRecv /\ Head(ackChan) \in Junk)
          => (sndAlive' /\ UNCHANGED <<sbuffer, send_semaphore, next_ack>>)]_vars

\* C20: the ACK the receiver builds after handling a DATA segment carries a
\* sequence number that to_bytes can encode, also when the segment arrives
\* while next_seq is still 0.
C20_AckSeqEncodable ==
  [][(ReceiverRecv /\ DataAtHead)
       => /\ next_seq' - 1 >= 0
          /\ ~to_bytes_raises(Packet(ACK, next_seq' - 1, <<>>))]_vars

====
